---- MODULE Spec2Model ----
(***************************************************************************)
(* qr_decoder (src/src/lib.rs): barcode scanning of a document and the     *)
(* enrichment of the decoded barcodes with the due dates found in the      *)
(* document's positioned markup.                                            *)
(*                                                                         *)
(* Text is a sequence of one-character strings.  Option<T> is a sequence   *)
(* of length at most one: None = <<>>, Some(v) = <<v>>.  A score is the    *)
(* radicand t*t + l*l of calculate_score (sqrt is strictly increasing and  *)
(* exact enough on the small integers used here, so order and equality of  *)
(* scores are those of the radicands); f64::INFINITY is <<>>.              *)
(***************************************************************************)
EXTENDS Integers, Sequences, FiniteSets, TLC

VARIABLES
    pc,            \* position in the operation under study
    doc,           \* parsed markup tree: elements in document order
    kind,          \* Kind::Date or Kind::PagoPa
    el,            \* element handed to iter_matches_in_el
    txt,           \* raw joined text of el
    cur,           \* ancestor visited by find_coordinates (0: chain exhausted)
    top,           \* find_coordinates: top
    left,          \* find_coordinates: left
    found,         \* Vec<Item> of matches
    sel,           \* collect_items_for_root: elements still to visit
    best,          \* collect_items_for_root: HashMap<String, Item>
    items,         \* collect_items_for_root: items
    pages,         \* process_pages: pages, sorted
    all_pairs,     \* process_pages: all_pairs
    pairs,         \* dates_and_codes: Vec<DateCodePair>
    map,           \* enrich_barcodes_with_dates: code -> date
    barcodes,      \* Vec<BarcodeData>
    bi,            \* enrich_barcodes_with_dates: barcodes already visited
    run,           \* which run of the pipeline on the same inputs
    out,           \* the enriched barcodes returned by each finished run
    log,           \* per page: the two candidate lists and the pairs emitted
    mime,          \* process_file: mime type inferred from the path
    mutool,        \* outcome of the external markup conversion
    scan,          \* outcome of get_images: "ok" or "err"
    result,        \* process_file / scan_barcodes: value returned
    images,        \* scan_barcodes: per image, the decoder's results
    wpc,           \* scan_barcodes: position of each per-image worker
    wres,          \* scan_barcodes: results each worker still has to push
    lock,          \* scan_barcodes: holder of the Mutex (0: free)
    barcode_list   \* scan_barcodes: the shared Vec behind the Mutex

vars == <<pc, doc, kind, el, txt, cur, top, left, found, sel, best, items,
          pages, all_pairs, pairs, map, barcodes, bi, run, out, log,
          mime, mutool, scan, result, images, wpc, wres, lock, barcode_list>>

None == <<>>
Some(v) == <<v>>
INFINITY == <<>>

(***************************************************************************)
(* Characters and sequences                                                *)
(***************************************************************************)
Digit == {"0", "1", "2", "3", "4", "5", "6", "7", "8", "9"}

UpperOrDigitOrSpace == Digit \cup {"A", "B", "C", "P", "Z", " "}

\* \s of the regex crate and char::is_whitespace, on the model's alphabet
Whitespace == {" ", "\t", "\n"}

DigitVal(c) ==
    CASE c = "0" -> 0 [] c = "1" -> 1 [] c = "2" -> 2 [] c = "3" -> 3
      [] c = "4" -> 4 [] c = "5" -> 5 [] c = "6" -> 6 [] c = "7" -> 7
      [] c = "8" -> 8 [] c = "9" -> 9

Rep(c, n) == [i \in 1..n |-> c]

RECURSIVE Flatten(_)
Flatten(ss) == IF ss = <<>> THEN <<>> ELSE Head(ss) \o Flatten(Tail(ss))

\* [0-9]{n} at position i of s
AllDigits(s, i, n) ==
    /\ i + n - 1 <= Len(s)
    /\ \A k \in i..(i + n - 1) : s[k] \in Digit

\* a literal at position i of s
LitAt(s, i, lit) ==
    /\ i + Len(lit) - 1 <= Len(s)
    /\ \A k \in 1..Len(lit) : s[i + k - 1] = lit[k]

RECURSIVE TrimStart(_)
TrimStart(s) ==
    IF s # <<>> /\ Head(s) \in Whitespace THEN TrimStart(Tail(s)) ELSE s

RECURSIVE TrimEnd(_)
TrimEnd(s) ==
    IF s # <<>> /\ s[Len(s)] \in Whitespace
    THEN TrimEnd(SubSeq(s, 1, Len(s) - 1)) ELSE s

\* str::trim
Trim(s) == TrimEnd(TrimStart(s))

\* [T]::join(" ")
RECURSIVE JoinSpace(_)
JoinSpace(ss) ==
    IF ss = <<>> THEN <<>>
    ELSE IF Len(ss) = 1 THEN ss[1]
    ELSE ss[1] \o <<" ">> \o JoinSpace(Tail(ss))

\* Regex \s+ replaced by "", then trim
IsNotWhitespace(c) == c \notin Whitespace

clean_text(s) == Trim(SelectSeq(s, IsNotWhitespace))

(***************************************************************************)
(* The compiled grammars                                                   *)
(***************************************************************************)
\* \s?\d{n} at position i: the position after it, 0 when it does not match
OptWsDigits(s, i, n) ==
    LET j == IF i <= Len(s) /\ s[i] \in Whitespace THEN i + 1 ELSE i
    IN  IF AllDigits(s, j, n) THEN j + n ELSE 0

\* ^(?:30|1\d)\d{2}(?:\s?\d{4}){3}\s?\d{2}$
pagopa_text_re(s) ==
    /\ Len(s) >= 4
    /\ \/ s[1] = "3" /\ s[2] = "0"
       \/ s[1] = "1" /\ s[2] \in Digit
    /\ AllDigits(s, 3, 2)
    /\ LET p1 == OptWsDigits(s, 5, 4)
           p2 == IF p1 = 0 THEN 0 ELSE OptWsDigits(s, p1, 4)
           p3 == IF p2 = 0 THEN 0 ELSE OptWsDigits(s, p2, 4)
           p4 == IF p3 = 0 THEN 0 ELSE OptWsDigits(s, p3, 2)
       IN  p4 = Len(s) + 1

\* ^\b\d{2}/\d{2}/\d{4}\b$
date_text_re(s) ==
    /\ Len(s) = 10
    /\ AllDigits(s, 1, 2) /\ s[3] = "/"
    /\ AllDigits(s, 4, 2) /\ s[6] = "/"
    /\ AllDigits(s, 7, 4)

(***************************************************************************)
(* Date Normalizer                                                         *)
(***************************************************************************)
DigitChar(n) ==
    CASE n = 0 -> "0" [] n = 1 -> "1" [] n = 2 -> "2" [] n = 3 -> "3"
      [] n = 4 -> "4" [] n = 5 -> "5" [] n = 6 -> "6" [] n = 7 -> "7"
      [] n = 8 -> "8" [] n = 9 -> "9"

\* the decimal numeral of n, zero-padded to w digits
RECURSIVE Pad(_, _)
Pad(n, w) == IF w = 0 THEN <<>> ELSE Pad(n \div 10, w - 1) \o <<DigitChar(n % 10)>>

\* number of leading digits of s from position i, at most m
RECURSIVE DigitRun(_, _, _)
DigitRun(s, i, m) ==
    IF m > 0 /\ i <= Len(s) /\ s[i] \in Digit THEN 1 + DigitRun(s, i + 1, m - 1) ELSE 0

RECURSIVE NumVal(_, _, _)
NumVal(s, i, n) ==
    IF n = 0 THEN 0 ELSE NumVal(s, i, n - 1) * 10 + DigitVal(s[i + n - 1])

IsLeap(y) == (y % 4 = 0 /\ y % 100 # 0) \/ y % 400 = 0

DaysInMonth(y, m) ==
    IF m = 2 THEN (IF IsLeap(y) THEN 29 ELSE 28)
    ELSE IF m \in {4, 6, 9, 11} THEN 30 ELSE 31

\* DateTime::<Utc>::to_rfc3339 of midnight UTC
Rfc3339(y, m, d) ==
    Pad(y, 4) \o <<"-">> \o Pad(m, 2) \o <<"-">> \o Pad(d, 2)
        \o <<"T", "0", "0", ":", "0", "0", ":", "0", "0", "+", "0", "0", ":", "0", "0">>

\* NaiveDate::parse_from_str(s.trim(), "%d/%m/%Y"), then midnight UTC as RFC 3339
parse_date_to_iso(str) ==
    LET s  == Trim(str)
        nd == DigitRun(s, 1, 2)
        i2 == nd + 2
        nm == DigitRun(s, i2, 2)
        i3 == i2 + nm + 1
        ny == DigitRun(s, i3, 4)
    IN  IF /\ nd > 0 /\ nd + 1 <= Len(s) /\ s[nd + 1] = "/"
           /\ nm > 0 /\ i2 + nm <= Len(s) /\ s[i2 + nm] = "/"
           /\ ny > 0 /\ i3 + ny = Len(s) + 1
        THEN LET d == NumVal(s, 1, nd)
                 m == NumVal(s, i2, nm)
                 y == NumVal(s, i3, ny)
             IN  IF m \in 1..12 /\ d >= 1 /\ d <= DaysInMonth(y, m)
                 THEN Some(Rfc3339(y, m, d)) ELSE None
        ELSE None

(***************************************************************************)
(* Barcode Payload Decoder                                                 *)
(***************************************************************************)
PagopaPrefix == <<"P", "A", "G", "O", "P", "A", "|", "0", "0", "2", "|">>

CodfasePrefix ==
    <<"c", "o", "d", "f", "a", "s", "e", "=", "N", "B", "P", "A", ";", "1", "8">>

Lit38961P1 == <<"3", "8", "9", "6", "1", "P", "1">>

\* ^PAGOPA\|002\|(?P<code1>[0-9]{18})\|[0-9]{11}\|[0-9]{1,}
MatchCode1(p) ==
    /\ LitAt(p, 1, PagopaPrefix)
    /\ AllDigits(p, 12, 18)
    /\ LitAt(p, 30, <<"|">>)
    /\ AllDigits(p, 31, 11)
    /\ LitAt(p, 42, <<"|">>)
    /\ AllDigits(p, 43, 1)

\* ^codfase=NBPA;18(?P<code2>[0-9]{18})12[0-9]{12}10[0-9]{10}38961P1[0-9]{11}
\*  [A-Z0-9 ]{16}.{162}A$
MatchCode2(p) ==
    /\ LitAt(p, 1, CodfasePrefix)
    /\ AllDigits(p, 16, 18)
    /\ LitAt(p, 34, <<"1", "2">>)
    /\ AllDigits(p, 36, 12)
    /\ LitAt(p, 48, <<"1", "0">>)
    /\ AllDigits(p, 50, 10)
    /\ LitAt(p, 60, Lit38961P1)
    /\ AllDigits(p, 67, 11)
    /\ Len(p) >= 93 /\ \A k \in 78..93 : p[k] \in UpperOrDigitOrSpace
    /\ Len(p) = 256 /\ \A k \in 94..255 : p[k] # "\n"
    /\ p[256] = "A"

pagopa_qr_code_from_payload(payload) ==
    IF MatchCode1(payload) THEN Some(SubSeq(payload, 12, 29))
    ELSE IF MatchCode2(payload) THEN Some(SubSeq(payload, 16, 33))
    ELSE None

(***************************************************************************)
(* Markup tree.  An element is                                             *)
(*   [tag, id, parent, style, nodes]                                       *)
(* with parent the index of the parent element (0: the parent is no        *)
(* element), style the inline style attribute (None, or Some of its        *)
(* ;-separated parts) and nodes the element's own text nodes, which        *)
(* precede its child elements.  A style part is [colon, k, num]: whether   *)
(* it holds a colon, its key, and the first numeric token of its value.    *)
(***************************************************************************)
Part(k, num) == [colon |-> TRUE, k |-> k, num |-> num]

Elem(tag, id, parent, style, nodes) ==
    [tag |-> tag, id |-> id, parent |-> parent, style |-> style, nodes |-> nodes]

\* str::to_lowercase on the keys of the model
Lower(k) == IF k = "TOP" THEN "top" ELSE IF k = "LEFT" THEN "left" ELSE k

RECURSIVE ParseParts(_, _, _)
ParseParts(parts, t, l) ==
    IF parts = <<>> THEN <<t, l>>
    ELSE LET part == Head(parts)
             rest == Tail(parts)
         IN  IF ~part.colon \/ part.num = None THEN ParseParts(rest, t, l)
             ELSE IF Lower(part.k) = "top" /\ t = None
                  THEN ParseParts(rest, Some(part.num[1]), l)
             ELSE IF Lower(part.k) = "left" /\ l = None
                  THEN ParseParts(rest, t, Some(part.num[1]))
             ELSE ParseParts(rest, t, l)

parse_style(style) ==
    IF style = None THEN <<None, None>> ELSE ParseParts(style[1], None, None)

\* the element and its ancestors, nearest first
RECURSIVE SelfAndAncestors(_, _)
SelfAndAncestors(d, e) ==
    IF e = 0 THEN <<>> ELSE <<e>> \o SelfAndAncestors(d, d[e].parent)

\* NodeRef::ancestors: the parent, its parent, ... (the node itself excluded)
ancestors(d, e) == SelfAndAncestors(d, d[e].parent)

SeqRange(s) == {s[i] : i \in 1..Len(s)}

RECURSIVE Ascending(_)
Ascending(S) ==
    IF S = {} THEN <<>>
    ELSE LET m == CHOOSE x \in S : \A y \in S : x <= y
         IN  <<m>> \o Ascending(S \ {m})

\* the proper descendants of e, in document order
Descendants(d, e) ==
    Ascending({j \in 1..Len(d) : e \in SeqRange(ancestors(d, j))})

\* a selection over the whole document instead of the subtree of root
SelectedInDocument(d, root) ==
    SelectSeq([j \in 1..Len(d) |-> j], LAMBDA j : d[j].tag \in {"p", "span", "div"})

\* ElementRef::select("p, span, div"): descendants of root, root excluded
Selected(d, root) ==
    SelectSeq(Descendants(d, root), LAMBDA j : d[j].tag \in {"p", "span", "div"})

\* ElementRef::text: every text node of the subtree, in document order
TextNodes(d, e) ==
    LET ds == Descendants(d, e)
    IN  Flatten([i \in 1..(1 + Len(ds)) |->
                    IF i = 1 THEN d[e].nodes ELSE d[ds[i - 1]].nodes])

text_of(d, e) == Trim(JoinSpace(TextNodes(d, e)))

\* one turn of find_coordinates' loop at ancestor e: <<top, left>> after it
WalkStep(d, e, t, l) ==
    LET tl == parse_style(d[e].style)
    IN  <<IF t = None /\ tl[1] # None THEN tl[1] ELSE t,
          IF l = None /\ tl[2] # None THEN tl[2] ELSE l>>

RECURSIVE Walk(_, _, _, _)
Walk(d, chain, t, l) ==
    IF chain = <<>> THEN <<t, l>>
    ELSE LET tl == WalkStep(d, Head(chain), t, l)
         IN  IF tl[1] # None /\ tl[2] # None THEN tl
             ELSE Walk(d, Tail(chain), tl[1], tl[2])

find_coordinates(d, e) == Walk(d, ancestors(d, e), None, None)

calculate_score(t, l) ==
    IF t # None /\ l # None THEN Some(t[1] * t[1] + l[1] * l[1]) ELSE INFINITY

Item(val, score) == [val |-> val, score |-> score]

is_match(k, s) == IF k = "Date" THEN date_text_re(s) ELSE pagopa_text_re(s)

iter_matches_in_el(d, e, k) ==
    LET t == text_of(d, e)
    IN  IF t = <<>> THEN <<>>
        ELSE IF ~is_match(k, t) THEN <<>>
        ELSE LET tl == find_coordinates(d, e)
             IN  <<Item(clean_text(t), calculate_score(tl[1], tl[2]))>>

(***************************************************************************)
(* Variable groups                                                         *)
(***************************************************************************)
elemVars == <<el, txt, cur, top, left>>
collVars == <<sel, best, items>>
pageVars == <<pages, all_pairs, run, out, log>>
enrVars  == <<pairs, map, bi>>
fileVars == <<mime, mutool, scan, result>>
scanVars == <<images, wpc, wres, lock, barcode_list>>

ElemIdle == el = 0 /\ txt = <<>> /\ cur = 0 /\ top = None /\ left = None
CollIdle == sel = <<>> /\ best = <<>> /\ items = <<>>
PageIdle == pages = <<>> /\ all_pairs = <<>> /\ run = 0 /\ out = <<>> /\ log = <<>>
EnrIdle  == pairs = <<>> /\ map = <<>> /\ bi = 0
FileIdle == mime = "" /\ mutool = "" /\ scan = "" /\ result = None
ScanIdle ==
    images = <<>> /\ wpc = <<>> /\ wres = <<>> /\ lock = 0 /\ barcode_list = <<>>

(***************************************************************************)
(* Texts of the model                                                      *)
(***************************************************************************)
\* 18-digit numerals in their customary groups
Code30 == <<<<"3", "0", "1", "1">>, <<"2", "2", "3", "3">>, <<"4", "4", "5", "5">>,
            <<"6", "6", "7", "7">>, <<"8", "8">>>>

Code1x == <<<<"1", "2", "3", "4">>, <<"5", "6", "7", "8">>, <<"9", "0", "1", "2">>,
            <<"3", "4", "5", "6">>, <<"7", "8">>>>

\* begins with neither 30 nor 1
Code21 == <<<<"2", "1", "1", "1">>, <<"2", "2", "3", "3">>, <<"4", "4", "5", "5">>,
            <<"6", "6", "7", "7">>, <<"8", "8">>>>

\* 17 digits
Code17 == <<<<"3", "0", "1", "1">>, <<"2", "2", "3", "3">>, <<"4", "4", "5", "5">>,
            <<"6", "6", "7", "7">>, <<"8">>>>

CodeGroups == {Code30, Code1x, Code21, Code17}

\* what may stand between two groups
Separators == {<<>>, <<" ">>, <<"\t">>, <<" ", " ">>, <<"-">>}

Date0103 == <<"0", "1", "/", "0", "3", "/", "2", "0", "2", "4">>
Date0203 == <<"0", "2", "/", "0", "3", "/", "2", "0", "2", "4">>
Date3102 == <<"3", "1", "/", "0", "2", "/", "2", "0", "2", "4">>

\* the groups g joined by the separators sp, cut into the text nodes of
\* sibling spans before separator number split (0: one text node)
GroupedNodes(g, sp, split) ==
    LET piece(i) == IF i = 1 THEN g[1] ELSE sp[i - 1] \o g[i]
        upto(a, b) == Flatten([i \in 1..(b - a + 1) |-> piece(a + i - 1)])
    IN  IF split = 0 THEN <<upto(1, 5)>>
        ELSE <<upto(1, split), upto(split + 1, 5)>>

\* a space put after the first q characters of the first text node
WithSpaceAt(nodes, q) ==
    IF q < 0 THEN nodes
    ELSE [nodes EXCEPT ![1] = SubSeq(@, 1, q) \o <<" ">> \o SubSeq(@, q + 1, Len(@))]

\* one element whose text nodes spell a candidate payment code
CodeDocs ==
    {<<Elem("p", <<>>, 0, None, WithSpaceAt(GroupedNodes(g, sp, split), q))>> :
        g \in CodeGroups, sp \in [1..4 -> Separators], split \in {0, 2, 4},
        q \in {-1, 0, 2}}

(***************************************************************************)
(* Inline styles of the model                                              *)
(***************************************************************************)
Styles ==
    { None,
      Some(<<Part("top", Some(3)), Part("left", Some(4))>>),
      Some(<<Part("top", Some(5))>>),
      Some(<<Part("left", Some(6))>>),
      Some(<<Part("TOP", Some(7)), Part("width", Some(9))>>),
      Some(<<Part("top", None), Part("left", Some(8))>>),
      Some(<<Part("top", Some(1)), Part("top", Some(2))>>),
      Some(<<[colon |-> FALSE, k |-> "left", num |-> Some(1)],
             Part("left", Some(0 - 4))>>) }

MaxDepth == 3

ChainTag(i) == IF i = 1 THEN "div" ELSE IF i = MaxDepth THEN "span" ELSE "p"

\* a chain of nested elements, the innermost holding a date
ChainDocs ==
    {[i \in 1..MaxDepth |->
        Elem(ChainTag(i), <<>>, i - 1, st[i],
             IF i = MaxDepth THEN <<Date0103>> ELSE <<>>)] :
        st \in [1..MaxDepth -> Styles]}

(***************************************************************************)
(* iter_matches_in_el, one step at a time                                  *)
(***************************************************************************)
InitElement ==
    /\ pc = "text_of"
    /\ \/ doc \in CodeDocs /\ el = 1 /\ kind \in {"PagoPa"}
       \/ doc \in ChainDocs /\ el \in 1..MaxDepth /\ kind \in {"Date", "PagoPa"}
    /\ txt = <<>> /\ cur = 0 /\ top = None /\ left = None
    /\ found = <<>> /\ barcodes = <<>>
    /\ CollIdle /\ PageIdle /\ EnrIdle /\ FileIdle /\ ScanIdle

othersOfElement ==
    <<doc, kind, el, barcodes, collVars, pageVars, enrVars, fileVars, scanVars>>

\* let txt = text_of(el); if txt.is_empty() { return vec![] }
TextOf ==
    /\ pc = "text_of"
    /\ txt' = text_of(doc, el)
    /\ pc' = IF txt' = <<>> THEN "returned" ELSE "is_match"
    /\ UNCHANGED <<cur, top, left, found, othersOfElement>>

\* if !is_match { return vec![] }
NoMatch ==
    /\ pc = "is_match"
    /\ ~is_match(kind, txt)
    /\ pc' = "returned"
    /\ UNCHANGED <<txt, cur, top, left, found, othersOfElement>>

\* is_match: find_coordinates begins at el.ancestors()
Match ==
    /\ pc = "is_match"
    /\ is_match(kind, txt)
    /\ cur' = (IF ancestors(doc, el) = <<>> THEN 0 ELSE Head(ancestors(doc, el)))
    /\ pc' = "walk"
    /\ UNCHANGED <<txt, top, left, found, othersOfElement>>

\* one turn of the loop over the ancestors
Visit ==
    /\ pc = "walk"
    /\ cur # 0
    /\ LET tl == WalkStep(doc, cur, top, left)
       IN  /\ top' = tl[1]
           /\ left' = tl[2]
           /\ IF tl[1] # None /\ tl[2] # None
              THEN pc' = "score" /\ cur' = cur
              ELSE pc' = "walk" /\ cur' = doc[cur].parent
    /\ UNCHANGED <<txt, found, othersOfElement>>

\* the ancestors are exhausted
WalkEnd ==
    /\ pc = "walk"
    /\ cur = 0
    /\ pc' = "score"
    /\ UNCHANGED <<txt, cur, top, left, found, othersOfElement>>

\* vec![Item { val: clean_text(&txt), score }]
Score ==
    /\ pc = "score"
    /\ found' = <<Item(clean_text(txt), calculate_score(top, left))>>
    /\ pc' = "returned"
    /\ UNCHANGED <<txt, cur, top, left, othersOfElement>>

NextElement == TextOf \/ NoMatch \/ Match \/ Visit \/ WalkEnd \/ Score

SpecElement == InitElement /\ [][NextElement]_vars

(***************************************************************************)
(* Properties of iter_matches_in_el                                        *)
(***************************************************************************)
DigitsBefore(s, i) == Cardinality({k \in 1..(i - 1) : s[k] \in Digit})

\* 18 digits beginning with 30 or 1x; the characters of seps may stand, one
\* at a time, only after the 4th, 8th, 12th and 16th digit
CodeShape(s, seps) ==
    LET ds == SelectSeq(s, LAMBDA c : c \notin seps)
    IN  /\ Len(ds) = 18
        /\ \A k \in 1..18 : ds[k] \in Digit
        /\ (ds[1] = "3" /\ ds[2] = "0") \/ ds[1] = "1"
        /\ \A i \in 1..Len(s) :
              s[i] \in seps =>
                 /\ DigitsBefore(s, i) \in {4, 8, 12, 16}
                 /\ i > 1 /\ s[i - 1] \notin seps

\* C6: a fragment is classified as a PaymentCode exactly when its raw joined
\* text is 18 digits beginning with 30 or 1x with at most one space character
\* at each of the four group boundaries and nothing else; the stored value is
\* then the 18 digits.
C6_SingleSpaceOnly ==
    (pc = "returned" /\ kind = "PagoPa") =>
        /\ (found # <<>>) <=> CodeShape(txt, {" "})
        /\ found # <<>> => found[1].val = SelectSeq(txt, LAMBDA c : c \in Digit)

\* what the grammar accepts instead: any one whitespace character at a boundary
CodeShapeAnyWhitespace ==
    (pc = "returned" /\ kind = "PagoPa") =>
        /\ (found # <<>>) <=> CodeShape(txt, Whitespace)
        /\ found # <<>> => found[1].val = SelectSeq(txt, LAMBDA c : c \in Digit)

\* the first numeric declaration of key in an inline style
RECURSIVE FirstNumeric(_, _)
FirstNumeric(parts, key) ==
    IF parts = <<>> THEN None
    ELSE IF Head(parts).colon /\ Lower(Head(parts).k) = key /\ Head(parts).num # None
         THEN Head(parts).num
         ELSE FirstNumeric(Tail(parts), key)

Declared(d, e, key) ==
    IF d[e].style = None THEN None ELSE FirstNumeric(d[e].style[1], key)

\* the value of key on the first element of chain that declares it
RECURSIVE Nearest(_, _, _)
Nearest(d, chain, key) ==
    IF chain = <<>> THEN None
    ELSE IF Declared(d, Head(chain), key) # None THEN Declared(d, Head(chain), key)
    ELSE Nearest(d, Tail(chain), key)

\* C7: for a matched element, top is the numeric top of the nearest element of
\* its ancestor chain, the element itself first, that declares one, and left
\* likewise and independently.
C7_NearestFromSelf ==
    pc = "score" =>
        /\ top = Nearest(doc, SelfAndAncestors(doc, el), "top")
        /\ left = Nearest(doc, SelfAndAncestors(doc, el), "left")

\* what the walk yields instead: the nearest proper ancestor that declares the
\* axis; the element's own style is never read
NearestProperAncestor ==
    pc = "score" =>
        /\ top = Nearest(doc, ancestors(doc, el), "top")
        /\ left = Nearest(doc, ancestors(doc, el), "left")

\* an axis once resolved is never overwritten
AxisNeverOverwritten ==
    [][(top # None => top' = top) /\ (left # None => left' = left)]_vars

\* the walk visits no further ancestor once both axes are resolved
WalkStopsWhenResolved ==
    [][(pc = "walk" /\ pc' = "walk") => (top' = None \/ left' = None)]_vars

(***************************************************************************)
(* collect_items_for_root, one step at a time                              *)
(***************************************************************************)
\* a.score < b.score on f64
ScoreLt(a, b) == a # INFINITY /\ (b = INFINITY \/ a[1] < b[1])

\* best.entry(val).and_modify(|ex| if item.score > ex.score ..).or_insert(item)
BestInsertKeepsWorst(b, item) ==
    IF item.val \in DOMAIN b
    THEN (IF ScoreLt(b[item.val].score, item.score)
          THEN [b EXCEPT ![item.val] = item] ELSE b)
    ELSE [v \in DOMAIN b \cup {item.val} |-> IF v = item.val THEN item ELSE b[v]]

\* best.entry(val).and_modify(|ex| if item.score < ex.score ..).or_insert(item)
BestInsert(b, item) ==
    IF item.val \in DOMAIN b
    THEN (IF ScoreLt(item.score, b[item.val].score)
          THEN [b EXCEPT ![item.val] = item] ELSE b)
    ELSE [v \in DOMAIN b \cup {item.val} |-> IF v = item.val THEN item ELSE b[v]]

RECURSIVE FoldBest(_, _)
FoldBest(b, f) == IF f = <<>> THEN b ELSE FoldBest(BestInsert(b, Head(f)), Tail(f))

\* every order in which a HashMap may hand out the values of b
IntoValues(b) ==
    LET n == Cardinality(DOMAIN b)
    IN  {[i \in 1..n |-> b[o[i]]] :
            o \in {f \in [1..n -> DOMAIN b] : \A i, j \in 1..n : f[i] = f[j] => i = j}}

\* x put into the sorted s after every element not greater than it
RECURSIVE InsertSorted(_, _)
InsertSorted(s, x) ==
    IF s = <<>> THEN <<x>>
    ELSE IF ScoreLt(x.score, Head(s).score) THEN <<x>> \o s
    ELSE <<Head(s)>> \o InsertSorted(Tail(s), x)

\* sort_by(partial_cmp(..).unwrap_or(Equal)): stable
RECURSIVE SortByScore(_)
SortByScore(s) ==
    IF s = <<>> THEN <<>>
    ELSE InsertSorted(SortByScore(SubSeq(s, 1, Len(s) - 1)), s[Len(s)])

\* the matches of the elements es, in order
RECURSIVE Matches(_, _, _)
Matches(d, es, k) ==
    IF es = <<>> THEN <<>>
    ELSE iter_matches_in_el(d, Head(es), k) \o Matches(d, Tail(es), k)

\* every list collect_items_for_root may return
collect_items_for_root(d, root, k) ==
    {SortByScore(vs) : vs \in IntoValues(FoldBest(<<>>, Matches(d, Selected(d, root), k)))}

\* fragments of a page: a positioned paragraph holding a span with the text
Frag(text, style) == [text |-> text, style |-> style]

At(t, l) == Some(<<Part("top", Some(t)), Part("left", Some(l))>>)

Spaced(g) == Flatten(GroupedNodes(g, [i \in 1..4 |-> <<" ">>], 0))

FragStyles == {None, At(3, 4), At(4, 3), At(0, 1)}

Frags ==
    {Frag(t, st) : t \in {Date0103, Date0203, Spaced(Code30), Flatten(Code30)},
                   st \in FragStyles}

MaxFrags == 3

FragSets == {S \in SUBSET Frags : Cardinality(S) <= MaxFrags}

\* some enumeration of a set of fragments
RECURSIVE FragSeq(_)
FragSeq(S) ==
    IF S = {} THEN <<>>
    ELSE LET f == CHOOSE x \in S : TRUE IN <<f>> \o FragSeq(S \ {f})

\* the elements of the fragments fs under the element at index root, the
\* first of them at index root + 1
FragElems(fs, root) ==
    [i \in 1..(2 * Len(fs)) |->
        IF i % 2 = 1
        THEN Elem("p", <<>>, root, fs[(i + 1) \div 2].style, <<>>)
        ELSE Elem("span", <<>>, root + i - 1, None, <<fs[i \div 2].text>>)]

PageId1 == <<"p", "a", "g", "e", "1">>

InitCollect ==
    /\ pc = "select"
    /\ \E S \in FragSets :
          doc = <<Elem("div", PageId1, 0, None, <<>>)>> \o FragElems(FragSeq(S), 1)
    /\ kind \in {"Date", "PagoPa"}
    /\ sel = Selected(doc, 1)
    /\ found = <<>> /\ best = <<>> /\ items = <<>> /\ barcodes = <<>>
    /\ ElemIdle /\ PageIdle /\ EnrIdle /\ FileIdle /\ ScanIdle

othersOfCollect ==
    <<doc, kind, barcodes, elemVars, pageVars, enrVars, fileVars, scanVars>>

\* for el in root.select(&selector) { found.extend(iter_matches_in_el(el, kind)) }
SelectNext ==
    /\ pc = "select"
    /\ sel # <<>>
    /\ found' = found \o iter_matches_in_el(doc, Head(sel), kind)
    /\ sel' = Tail(sel)
    /\ UNCHANGED <<pc, best, items, othersOfCollect>>

SelectEnd ==
    /\ pc = "select"
    /\ sel = <<>>
    /\ pc' = "best"
    /\ UNCHANGED <<sel, found, best, items, othersOfCollect>>

\* for item in found { best.entry(..)... }
BestNext ==
    /\ pc = "best"
    /\ found # <<>>
    /\ best' = BestInsert(best, Head(found))
    /\ found' = Tail(found)
    /\ UNCHANGED <<pc, sel, items, othersOfCollect>>

\* let mut items: Vec<Item> = best.into_values().collect()
CollectValues ==
    /\ pc = "best"
    /\ found = <<>>
    /\ items' \in IntoValues(best)
    /\ pc' = "sort"
    /\ UNCHANGED <<sel, found, best, othersOfCollect>>

\* items.sort_by(..); items
SortItems ==
    /\ pc = "sort"
    /\ items' = SortByScore(items)
    /\ pc' = "returned"
    /\ UNCHANGED <<sel, found, best, othersOfCollect>>

NextCollect == SelectNext \/ SelectEnd \/ BestNext \/ CollectValues \/ SortItems

SpecCollect == InitCollect /\ [][NextCollect]_vars

\* the items of every matching fragment under the page root
AllMatches == SeqRange(Matches(doc, Selected(doc, 1), kind))

\* C5: the list returned for a page and kind holds every matching value once,
\* each with the minimum score over the matching fragments that reduce to it,
\* in ascending order of score with the unpositioned (+infinity) entries last.
C5_CandidateSet ==
    pc = "returned" =>
        /\ \A i, j \in 1..Len(items) : items[i].val = items[j].val => i = j
        /\ {items[i].val : i \in 1..Len(items)} = {m.val : m \in AllMatches}
        /\ \A i \in 1..Len(items) :
              /\ items[i] \in AllMatches
              /\ \A m \in AllMatches :
                    m.val = items[i].val => ~ScoreLt(m.score, items[i].score)
        /\ \A i, j \in 1..Len(items) :
              i < j => ~ScoreLt(items[j].score, items[i].score)

\* a value seen at two different scores, and a positioned entry before an
\* unpositioned one
C5_Witness ==
    /\ pc = "returned"
    /\ \E m, n \in AllMatches : m.val = n.val /\ ScoreLt(m.score, n.score)
    /\ Len(items) >= 2
    /\ items[1].score # INFINITY
    /\ items[Len(items)].score = INFINITY

(***************************************************************************)
(* process_pages, extract_dates_and_codes_from_html and                    *)
(* enrich_barcodes_with_dates                                              *)
(***************************************************************************)
\* u32::MAX, as a numeral
U32Max == <<"4", "2", "9", "4", "9", "6", "7", "2", "9", "5">>

PageLit == <<"p", "a", "g", "e">>

\* a numeral without its leading zeros
RECURSIVE StripZeros(_)
StripZeros(ds) ==
    IF Len(ds) > 1 /\ Head(ds) = "0" THEN StripZeros(Tail(ds)) ELSE ds

\* a < b on numerals without leading zeros
NumLt(a, b) ==
    \/ Len(a) < Len(b)
    \/ /\ Len(a) = Len(b)
       /\ \E i \in 1..Len(a) :
             /\ DigitVal(a[i]) < DigitVal(b[i])
             /\ \A j \in 1..(i - 1) : a[j] = b[j]

\* page_id_re().captures(id), then caps[1].parse::<u32>(): the page number
\* as a numeral without leading zeros
PageNumber(id) ==
    IF LitAt(id, 1, PageLit) /\ Len(id) >= 5 /\ AllDigits(id, 5, Len(id) - 4)
    THEN LET n == StripZeros(SubSeq(id, 5, Len(id)))
         IN  IF NumLt(U32Max, n) THEN None ELSE Some(n)
    ELSE None

\* doc.select("div[id]") filtered by the page id grammar: <<n, el>>, in
\* document order
RECURSIVE PageDivs(_, _)
PageDivs(d, i) ==
    IF i > Len(d) THEN <<>>
    ELSE IF d[i].tag = "div" /\ d[i].id # <<>> /\ PageNumber(d[i].id) # None
         THEN <<<<PageNumber(d[i].id)[1], i>>>> \o PageDivs(d, i + 1)
         ELSE PageDivs(d, i + 1)

RECURSIVE InsertByKey(_, _)
InsertByKey(s, x) ==
    IF s = <<>> THEN <<x>>
    ELSE IF NumLt(x[1], Head(s)[1]) THEN <<x>> \o s
    ELSE <<Head(s)>> \o InsertByKey(Tail(s), x)

\* the pages left in the order of their appearance
SortPagesOmitted(ps) == ps

\* pages.sort_by_key(|(n, _)| *n): stable
RECURSIVE SortPages(_)
SortPages(ps) ==
    IF ps = <<>> THEN <<>>
    ELSE InsertByKey(SortPages(SubSeq(ps, 1, Len(ps) - 1)), ps[Len(ps)])

\* zip that pads the shorter list with its last element
ZipPadded(ds, cs) ==
    LET n == IF Len(ds) > Len(cs) THEN Len(ds) ELSE Len(cs)
        at(s, i) == IF i <= Len(s) THEN s[i] ELSE s[Len(s)]
    IN  IF ds = <<>> \/ cs = <<>> THEN <<>>
        ELSE [i \in 1..n |-> <<at(ds, i).val, at(cs, i).val>>]

\* dates.iter().zip(codes.iter()) mapped to (d.val, c.val)
RECURSIVE Zip(_, _)
Zip(ds, cs) ==
    IF ds = <<>> \/ cs = <<>> THEN <<>>
    ELSE <<<<Head(ds).val, Head(cs).val>>>> \o Zip(Tail(ds), Tail(cs))

\* the pairs one page adds to all_pairs
PagePairs(dates, codes) ==
    IF dates # <<>> /\ codes # <<>> THEN Zip(dates, codes) ELSE <<>>

DateCodePair(date, code) == [date |-> date, code |-> code]

\* filter_map over process_pages' result
RECURSIVE extract_dates_and_codes_from_html(_)
extract_dates_and_codes_from_html(ap) ==
    IF ap = <<>> THEN <<>>
    ELSE LET iso == parse_date_to_iso(Head(ap)[1])
             rest == extract_dates_and_codes_from_html(Tail(ap))
         IN  IF iso = None THEN rest
             ELSE <<DateCodePair(iso[1], clean_text(Head(ap)[2]))>> \o rest

BarcodeData(type, data, date) == [type |-> type, data |-> data, date |-> date]

\* HashMap::insert that keeps the value already stored
MapInsertKeepsFirst(m, k, v) ==
    IF k \in DOMAIN m THEN m
    ELSE [x \in DOMAIN m \cup {k} |-> IF x = k THEN v ELSE m[x]]

\* HashMap::insert
MapInsert(m, k, v) == [x \in DOMAIN m \cup {k} |-> IF x = k THEN v ELSE m[x]]

\* pairs.iter().map(|p| (p.code, p.date)).collect::<HashMap<_, _>>()
RECURSIVE CollectMap(_, _)
CollectMap(m, ps) ==
    IF ps = <<>> THEN m
    ELSE CollectMap(MapInsert(m, Head(ps).code, Head(ps).date), Tail(ps))

\* the body of the loop over the barcodes
EnrichOne(b, m) ==
    LET code == pagopa_qr_code_from_payload(b.data)
    IN  IF code # None /\ code[1] \in DOMAIN m
        THEN [b EXCEPT !.date = Some(m[code[1]])] ELSE b

enrich_barcodes_with_dates(bs, ps) ==
    [i \in 1..Len(bs) |-> EnrichOne(bs[i], CollectMap(<<>>, ps))]

\* payloads of the model
Prefixed(code) ==
    PagopaPrefix \o code \o <<"|">> \o Rep("1", 11) \o <<"|", "1">>

Structural(code) ==
    CodfasePrefix \o code \o <<"1", "2">> \o Rep("0", 12) \o <<"1", "0">> \o Rep("0", 10)
        \o Lit38961P1 \o Rep("0", 11) \o Rep("Z", 16) \o Rep("x", 162) \o <<"A">>

Unrelated == <<"u", "n", "r", "e", "l", "a", "t", "e", "d">>

\* a document: each container is a div [id, frags, nested]; a nested
\* container is the last child of the container before it
RECURSIVE BuildDoc(_, _, _)
BuildDoc(cs, d, prev) ==
    IF cs = <<>> THEN d
    ELSE LET c == Head(cs)
             root == Len(d) + 1
             parent == IF c.nested THEN prev ELSE 0
         IN  BuildDoc(Tail(cs),
                      d \o <<Elem("div", c.id, parent, None, <<>>)>>
                        \o FragElems(FragSeq(c.frags), root),
                      root)

MaxContainers == 2

PageFrags ==
    {Frag(Date0103, At(3, 4)), Frag(Date0203, At(4, 3)),
     Frag(Spaced(Code30), At(3, 4)), Frag(Flatten(Code1x), At(4, 3))}

PageFragSets == {S \in SUBSET PageFrags : Cardinality(S) <= MaxFrags}

PageIdOf(k) == PageLit \o <<DigitChar(k)>>

\* the contents of the containers of a longer document: nothing, two dates of
\* equal score, these with a code, a date with two codes, a date and a code
PageContents ==
    {{},
     {Frag(Date0103, At(3, 4)), Frag(Date0203, At(4, 3))},
     {Frag(Date0103, At(3, 4)), Frag(Date0203, At(4, 3)),
      Frag(Spaced(Code30), At(3, 4))},
     {Frag(Date0103, At(3, 4)), Frag(Spaced(Code30), At(3, 4)),
      Frag(Flatten(Code1x), At(4, 3))},
     {Frag(Date0203, At(4, 3)), Frag(Flatten(Code1x), At(4, 3))}}

\* containers page1, page2, ... in this order, each possibly nested in the one
\* before it; documents of up to two containers carry every fragment set
NestedDocs ==
    UNION {
      {BuildDoc([k \in 1..n |-> [id |-> PageIdOf(k), frags |-> fr[k],
                                 nested |-> (k > 1 /\ ne[k])]], <<>>, 0) :
          fr \in [1..n -> IF n <= 2 THEN PageFragSets ELSE PageContents],
          ne \in [1..n -> BOOLEAN]} :
      n \in 1..MaxContainers}

DecodedBarcodes ==
    <<BarcodeData("QR_CODE", Prefixed(Flatten(Code30)), None),
      BarcodeData("DATA_MATRIX", Structural(Flatten(Code1x)), None),
      BarcodeData("EAN_13", Unrelated, None)>>

InitPipeline ==
    /\ pc = "parse"
    /\ kind = "" /\ found = <<>>
    /\ barcodes = DecodedBarcodes
    /\ pages = <<>> /\ all_pairs = <<>> /\ run = 1 /\ out = <<>> /\ log = <<>>
    /\ pairs = <<>> /\ map = <<>> /\ bi = 0
    /\ ElemIdle /\ CollIdle /\ FileIdle /\ ScanIdle

Init == InitPipeline /\ doc \in NestedDocs

othersOfPages == <<doc, kind, found, barcodes, elemVars, collVars, fileVars, scanVars>>

\* the page containers, collected and sorted
ParsePages ==
    /\ pc = "parse"
    /\ pages' = SortPages(PageDivs(doc, 1))
    /\ all_pairs' = <<>>
    /\ pc' = "pages"
    /\ UNCHANGED <<run, out, log, enrVars, othersOfPages>>

\* one turn of the loop over the pages
ProcessPage ==
    /\ pc = "pages"
    /\ pages # <<>>
    /\ \E dates \in collect_items_for_root(doc, Head(pages)[2], "Date"),
          codes \in collect_items_for_root(doc, Head(pages)[2], "PagoPa") :
          /\ all_pairs' = all_pairs \o PagePairs(dates, codes)
          /\ log' = Append(log, [n |-> Head(pages)[1], root |-> Head(pages)[2],
                                 dates |-> dates, codes |-> codes,
                                 pairs |-> PagePairs(dates, codes)])
    /\ pages' = Tail(pages)
    /\ UNCHANGED <<pc, run, out, enrVars, othersOfPages>>

\* process_pages returns; the pairs are normalised
ExtractPairs ==
    /\ pc = "pages"
    /\ pages = <<>>
    /\ pairs' = extract_dates_and_codes_from_html(all_pairs)
    /\ pc' = "enrich"
    /\ UNCHANGED <<map, bi, pageVars, othersOfPages>>

\* enrich_barcodes_with_dates on a fresh copy of the decoded barcodes
EnrichAll ==
    /\ pc = "enrich"
    /\ out' = Append(out, enrich_barcodes_with_dates(barcodes, pairs))
    /\ pc' = "returned"
    /\ UNCHANGED <<pages, all_pairs, run, log, enrVars, othersOfPages>>

\* the same inputs are processed once more
RunAgain ==
    /\ pc = "returned"
    /\ run = 1
    /\ run' = 2
    /\ pc' = "parse"
    /\ pages' = <<>> /\ all_pairs' = <<>> /\ log' = <<>> /\ pairs' = <<>>
    /\ UNCHANGED <<out, map, bi, othersOfPages>>

Next == ParsePages \/ ProcessPage \/ ExtractPairs \/ EnrichAll

Spec == Init /\ [][Next]_vars

NextTwice == Next \/ RunAgain

SpecTwice == Init /\ [][NextTwice]_vars

\* documents of sibling containers: container k holds the date of day k and a
\* payment code, under an identifier that may or may not name a page
OrderIds ==
    { PageLit \o <<"1">>, PageLit \o <<"2">>, PageLit \o <<"0", "2">>,
      PageLit \o <<"4", "2", "9", "4", "9", "6", "7", "2", "9", "6">>,
      <<"h", "e", "a", "d", "e", "r">> }

DateOfDay(k) == <<"0", DigitChar(k), "/", "0", "3", "/", "2", "0", "2", "4">>

MaxOrderContainers == 3

OrderDocs ==
    {BuildDoc([k \in 1..MaxOrderContainers |->
                 [id |-> ids[k], nested |-> FALSE,
                  frags |-> {Frag(DateOfDay(k), At(3, 4)),
                             Frag(Spaced(Code30), At(0, 1))}]], <<>>, 0) :
        ids \in [1..MaxOrderContainers -> OrderIds]}

InitOrder == InitPipeline /\ doc \in OrderDocs

SpecOrder == InitOrder /\ [][Next]_vars

(***************************************************************************)
(* Properties of the page pairer                                           *)
(***************************************************************************)
Min(a, b) == IF a < b THEN a ELSE b

\* the first min(len) ranks of the two lists, paired rank by rank
RankPairs(dates, codes) ==
    IF dates = <<>> \/ codes = <<>> THEN <<>>
    ELSE [i \in 1..Min(Len(dates), Len(codes)) |-> <<dates[i].val, codes[i].val>>]

\* C2: a page whose Date list or PaymentCode list is empty contributes no pair;
\* any other page contributes exactly min(len(dates), len(codes)) pairs, the
\* i-th being (dates[i], codes[i]); the tail of the longer list is dropped.
C2_PagePairer ==
    all_pairs = Flatten([i \in 1..Len(log) |-> RankPairs(log[i].dates, log[i].codes)])

\* a page with two dates and one code, and a page with two dates and no code
C2_Witness ==
    /\ pc = "returned"
    /\ \E i \in 1..Len(log) : Len(log[i].dates) = 2 /\ Len(log[i].codes) = 1
    /\ \E i \in 1..Len(log) : Len(log[i].dates) = 2 /\ Len(log[i].codes) = 0
    /\ Len(all_pairs) = 1

\* C3: two runs of extraction, pairing and enrichment on the same markup and
\* the same decoded barcodes return the same enriched barcodes, also when
\* distinct candidates of a page have equal scores.
C3_SameOutput == Len(out) = 2 => out[1] = out[2]

Inside(e, r) == r \in SeqRange(ancestors(doc, e))

PageRoots == {pd[2] : pd \in SeqRange(PageDivs(doc, 1))}

\* the elements inside container r that are candidates of kind k with value v
CandidatesOf(r, k, v) ==
    {e \in 1..Len(doc) :
        /\ Inside(e, r)
        /\ LET m == iter_matches_in_el(doc, e, k)
           IN  m # <<>> /\ m[1].val = v}

InNoOtherPage(e, r) == \A q \in PageRoots \ {r} : ~Inside(e, q)

\* C8: the date and the code of every emitted pair are both drawn from
\* candidates of the page that emits it, and neither is a candidate that
\* belongs to another page's container.
C8_PageIsolation ==
    \A i \in 1..Len(log) : \A j \in 1..Len(log[i].pairs) :
        /\ \E e \in CandidatesOf(log[i].root, "Date", log[i].pairs[j][1]) :
              InNoOtherPage(e, log[i].root)
        /\ \E e \in CandidatesOf(log[i].root, "PagoPa", log[i].pairs[j][2]) :
              InNoOtherPage(e, log[i].root)

\* the container neither holds nor lies inside another page container
Standalone(r) == \A q \in PageRoots : ~Inside(r, q) /\ ~Inside(q, r)

\* C8, amended: the date and the code of every emitted pair are both drawn
\* from candidates inside the container of the page that emits it; when that
\* container neither holds nor lies inside another page container, neither
\* candidate belongs to another page's container.
C8_IsolationOfStandalonePages ==
    /\ all_pairs = Flatten([i \in 1..Len(log) |-> log[i].pairs])
    /\ \A i \in 1..Len(log) : \A j \in 1..Len(log[i].pairs) :
          /\ \E e \in CandidatesOf(log[i].root, "Date", log[i].pairs[j][1]) :
                Standalone(log[i].root) => InNoOtherPage(e, log[i].root)
          /\ \E e \in CandidatesOf(log[i].root, "PagoPa", log[i].pairs[j][2]) :
                Standalone(log[i].root) => InNoOtherPage(e, log[i].root)

\* two standalone pages, each emitting a pair
C8_Witness ==
    /\ pc = "returned"
    /\ Len(log) = 2
    /\ \A i \in 1..2 : Standalone(log[i].root) /\ log[i].pairs # <<>>

\* the numeric suffix of a page<digits> identifier, as a numeral
Suffix(id) == StripZeros(SubSeq(id, 5, Len(id)))

\* the containers C in ascending order of suffix, those of equal suffix in
\* the order of their appearance
Ranked(C) ==
    LET before(a, b) == \/ NumLt(Suffix(doc[a].id), Suffix(doc[b].id))
                        \/ Suffix(doc[a].id) = Suffix(doc[b].id) /\ a < b
        rank(c) == 1 + Cardinality({a \in C : before(a, c)})
    IN  [i \in 1..Cardinality(C) |-> CHOOSE c \in C : rank(c) = i]

NamedPage(e) ==
    /\ doc[e].tag = "div"
    /\ LitAt(doc[e].id, 1, PageLit)
    /\ Len(doc[e].id) >= 5
    /\ AllDigits(doc[e].id, 5, Len(doc[e].id) - 4)

PairsInOrderOf(C) ==
    pc \in {"enrich", "returned"} =>
        /\ [i \in 1..Len(log) |-> log[i].root] = Ranked(C)
        /\ all_pairs = Flatten([i \in 1..Len(log) |-> log[i].pairs])

\* C9: the pair sequence is the concatenation of the per-page pair lists of
\* the containers identified page<digits>, in ascending order of the numeric
\* suffix whatever their order of appearance; other containers add nothing.
C9_PageOrder == PairsInOrderOf({e \in 1..Len(doc) : NamedPage(e)})

\* C9, amended: the same, of the containers identified page<digits> whose
\* suffix fits an unsigned 32-bit integer; a container whose suffix exceeds
\* 4294967295 adds nothing, like one whose identifier does not match.
C9_PageOrderOfU32Suffixes ==
    PairsInOrderOf({e \in 1..Len(doc) :
                       NamedPage(e) /\ ~NumLt(U32Max, Suffix(doc[e].id))})

\* pages processed in an order other than that of their appearance, next to a
\* container that names no page
C9_Witness ==
    /\ pc = "returned"
    /\ Len(log) = 2 /\ log[1].root > log[2].root
    /\ Len(all_pairs) = 2
    /\ \E e \in 1..Len(doc) : doc[e].tag = "div" /\ ~NamedPage(e)

(***************************************************************************)
(* enrich_barcodes_with_dates, one step at a time                          *)
(***************************************************************************)
MaxBarcodes == 2

MaxPairs == 3

SeqsUpTo(S, n) == UNION {[1..k -> S] : k \in 0..n}

\* a prefixed payload followed by further text, one whose code is a digit
\* short, and a structural payload that does not end in A
Payloads ==
    { Prefixed(Flatten(Code30)), Structural(Flatten(Code1x)), Unrelated,
      Prefixed(Flatten(Code21)) \o Unrelated, Prefixed(Flatten(Code17)),
      SubSeq(Structural(Flatten(Code30)), 1, 255) \o <<"B">> }

\* pairs as extract_dates_and_codes_from_html yields them
PairValues ==
    {DateCodePair(parse_date_to_iso(d)[1], clean_text(Flatten(c))) :
        d \in {Date0103, Date0203}, c \in {Code30, Code1x}}

InitEnrich ==
    /\ pc = "collect"
    /\ doc = <<>> /\ kind = "" /\ found = <<>>
    /\ barcodes \in SeqsUpTo({BarcodeData("QR_CODE", p, None) : p \in Payloads},
                             MaxBarcodes)
    /\ pairs \in SeqsUpTo(PairValues, MaxPairs)
    /\ map = <<>> /\ bi = 0
    /\ ElemIdle /\ CollIdle /\ PageIdle /\ FileIdle /\ ScanIdle

othersOfEnrich == <<doc, kind, found, elemVars, collVars, pageVars, fileVars, scanVars>>

\* let map: HashMap<String, String> = pairs.iter().map(..).collect()
BuildMap ==
    /\ pc = "collect"
    /\ map' = CollectMap(<<>>, pairs)
    /\ pc' = "loop"
    /\ UNCHANGED <<pairs, barcodes, bi, othersOfEnrich>>

\* one turn of the loop over barcodes.iter_mut()
EnrichNext ==
    /\ pc = "loop"
    /\ bi < Len(barcodes)
    /\ barcodes' = [barcodes EXCEPT ![bi + 1] = EnrichOne(@, map)]
    /\ bi' = bi + 1
    /\ UNCHANGED <<pc, pairs, map, othersOfEnrich>>

EnrichReturn ==
    /\ pc = "loop"
    /\ bi = Len(barcodes)
    /\ pc' = "returned"
    /\ UNCHANGED <<pairs, map, barcodes, bi, othersOfEnrich>>

NextEnrich == BuildMap \/ EnrichNext \/ EnrichReturn

SpecEnrich == InitEnrich /\ [][NextEnrich]_vars

\* the positions of pairs whose code is c
PairsWithCode(c) == {j \in 1..Len(pairs) : pairs[j].code = c}

Last(S) == CHOOSE j \in S : \A k \in S : k <= j

\* C1: after enrichment a barcode has a date exactly when a payment code is
\* extracted from its payload and some pair has that code; the date is then
\* that of the last pair with the code.
C1_EnrichmentJoin ==
    pc = "returned" =>
        \A i \in 1..Len(barcodes) :
            LET b == barcodes[i]
                c == pagopa_qr_code_from_payload(b.data)
                hit == c # None /\ PairsWithCode(c[1]) # {}
            IN  /\ (b.date # None) <=> hit
                /\ hit => b.date = Some(pairs[Last(PairsWithCode(c[1]))].date)

\* a barcode whose code occurs in two pairs of different dates, next to a
\* barcode that carries no payment code
C1_Witness ==
    /\ pc = "returned"
    /\ \E i \in 1..Len(barcodes) :
          /\ barcodes[i].date # None
          /\ \E j, k \in PairsWithCode(pagopa_qr_code_from_payload(barcodes[i].data)[1]) :
                j < k /\ pairs[j].date # pairs[k].date
    /\ \E i \in 1..Len(barcodes) : pagopa_qr_code_from_payload(barcodes[i].data) = None

(***************************************************************************)
(* scan_barcodes: one worker per image, the results behind a Mutex         *)
(***************************************************************************)
MaxImages == 3

Decoded(type, text) == [type |-> type, text |-> text]

QrResult == Decoded("QR_CODE", Prefixed(Flatten(Code30)))

EanResult == Decoded("EAN_13", Unrelated)

\* what the decoder may return for one image
Detections ==
    { [ok |-> FALSE, results |-> <<>>], [ok |-> TRUE, results |-> <<>>],
      [ok |-> TRUE, results |-> <<QrResult>>],
      [ok |-> TRUE, results |-> <<EanResult>>],
      [ok |-> TRUE, results |-> <<QrResult, EanResult>>] }

\* only the first detection of an image is kept
FirstResultOnly(image) ==
    IF image.ok /\ image.results # <<>> THEN <<Head(image.results)>> ELSE <<>>

\* if let Ok(results) = results { for result in results .. }
ResultsOf(image) == IF image.ok THEN image.results ELSE <<>>

InitScan ==
    /\ pc = "scan"
    /\ doc = <<>> /\ kind = "" /\ found = <<>> /\ barcodes = <<>>
    /\ \E n \in 1..MaxImages : images \in [1..n -> Detections]
    /\ wpc = [w \in DOMAIN images |-> "decode"]
    /\ wres = [w \in DOMAIN images |-> <<>>]
    /\ lock = 0
    /\ barcode_list = <<>>
    /\ mime = "" /\ mutool = "" /\ scan = "ok" /\ result = None
    /\ ElemIdle /\ CollIdle /\ PageIdle /\ EnrIdle

othersOfScan ==
    <<doc, kind, found, barcodes, mime, mutool, scan, images,
      elemVars, collVars, pageVars, enrVars>>

\* the decoder runs on the image
Decode(w) ==
    /\ pc = "scan"
    /\ wpc[w] = "decode"
    /\ wres' = [wres EXCEPT ![w] = ResultsOf(images[w])]
    /\ wpc' = [wpc EXCEPT ![w] = IF wres'[w] = <<>> THEN "done" ELSE "lock"]
    /\ UNCHANGED <<pc, lock, barcode_list, result, othersOfScan>>

\* barcode_list.lock()
Lock(w) ==
    /\ pc = "scan"
    /\ wpc[w] = "lock"
    /\ lock = 0
    /\ lock' = w
    /\ wpc' = [wpc EXCEPT ![w] = "push"]
    /\ UNCHANGED <<pc, wres, barcode_list, result, othersOfScan>>

\* list.push(BarcodeData { .., date: None }); the guard is dropped
Push(w) ==
    /\ pc = "scan"
    /\ wpc[w] = "push"
    /\ lock = w
    /\ barcode_list' = Append(barcode_list,
                              BarcodeData(Head(wres[w]).type, Head(wres[w]).text, None))
    /\ wres' = [wres EXCEPT ![w] = Tail(@)]
    /\ lock' = 0
    /\ wpc' = [wpc EXCEPT ![w] = IF wres'[w] = <<>> THEN "done" ELSE "lock"]
    /\ UNCHANGED <<pc, result, othersOfScan>>

Ok(v) == Some([ok |-> TRUE, value |-> v])

Err(e) == Some([ok |-> FALSE, value |-> e])

\* for_each has joined every worker: Ok(Arc::into_inner(..).into_inner())
ScanReturn ==
    /\ pc = "scan"
    /\ \A w \in DOMAIN images : wpc[w] = "done"
    /\ result' = Ok(barcode_list)
    /\ pc' = "returned"
    /\ UNCHANGED <<wpc, wres, lock, barcode_list, othersOfScan>>

NextScan == (\E w \in DOMAIN images : Decode(w) \/ Lock(w) \/ Push(w)) \/ ScanReturn

SpecScan == InitScan /\ [][NextScan]_vars

Count(s, x) == Cardinality({i \in 1..Len(s) : s[i] = x})

RECURSIVE Sum(_, _)
Sum(f, n) == IF n = 0 THEN 0 ELSE f[n] + Sum(f, n - 1)

\* how often the decoder reported r over all images
Reported(r) ==
    Sum([w \in 1..Len(images) |->
            IF images[w].ok THEN Count(images[w].results, r) ELSE 0], Len(images))

AllReported == UNION {SeqRange(images[w].results) : w \in 1..Len(images)}

\* C10: whatever the interleaving of the workers, the list returned holds every
\* result decoded from every image exactly as often as it was decoded, each
\* with no date, and nothing else.
C10_NothingLostOrDuplicated ==
    pc = "returned" =>
        /\ result # None /\ result[1].ok
        /\ \A i \in 1..Len(result[1].value) :
              /\ result[1].value[i].date = None
              /\ Decoded(result[1].value[i].type, result[1].value[i].data) \in AllReported
        /\ \A r \in AllReported :
              Count(result[1].value, BarcodeData(r.type, r.text, None)) = Reported(r)

\* two results of the first image with one of a later image pushed between them
C10_Witness ==
    /\ pc = "returned"
    /\ Len(images) >= 2
    /\ images[1].results = <<QrResult, EanResult>>
    /\ images[2].results = <<EanResult>>
    /\ Len(result[1].value) >= 3
    /\ result[1].value[1].type = "QR_CODE"
    /\ result[1].value[2].type = "EAN_13"
    /\ result[1].value[3].type = "EAN_13"
    /\ Reported(EanResult) >= 2

(***************************************************************************)
(* process_file                                                            *)
(***************************************************************************)
\* every list process_pages may return for the pages ps
RECURSIVE PairsOfPages(_, _)
PairsOfPages(d, ps) ==
    IF ps = <<>> THEN {<<>>}
    ELSE {PagePairs(ds, cs) \o rest :
             ds \in collect_items_for_root(d, Head(ps)[2], "Date"),
             cs \in collect_items_for_root(d, Head(ps)[2], "PagoPa"),
             rest \in PairsOfPages(d, Tail(ps))}

process_pages(d) == PairsOfPages(d, SortPages(PageDivs(d, 1)))

\* every order in which the workers may push the results of the images
RECURSIVE Merges(_, _)
Merges(a, b) ==
    IF a = <<>> THEN {b}
    ELSE IF b = <<>> THEN {a}
    ELSE {<<Head(a)>> \o m : m \in Merges(Tail(a), b)}
            \cup {<<Head(b)>> \o m : m \in Merges(a, Tail(b))}

RECURSIVE ScanOrders(_)
ScanOrders(imgs) ==
    IF imgs = <<>> THEN {<<>>}
    ELSE UNION {Merges(ResultsOf(Head(imgs)), m) : m \in ScanOrders(Tail(imgs))}

\* the status of the tool is not looked at: its output is taken whenever it ran
run_mutool_ignores_status(outcome, html) ==
    IF outcome \in {"ok", "exit_failure"} THEN Ok(html) ELSE Err(outcome)

\* run_mutool_to_html: the tool is missing, exits non-zero, writes bytes that
\* are no UTF-8, or writes the markup
run_mutool_to_html(outcome, html) ==
    IF outcome = "ok" THEN Ok(html) ELSE Err(outcome)

MaxFileImages == 2

Pdf == "application/pdf"

\* single-page markup the tool may write
FileDocs ==
    {BuildDoc(<<[id |-> PageIdOf(1), frags |-> S, nested |-> FALSE]>>, <<>>, 0) :
        S \in {T \in SUBSET (PageFrags \cup {Frag(Date3102, At(0, 1))}) :
                 Cardinality(T) = 2}}

InitFile ==
    /\ pc = "scan"
    /\ doc \in FileDocs
    /\ kind = "" /\ found = <<>> /\ barcodes = <<>>
    /\ scan \in {"ok", "err"}
    /\ mime \in {Pdf, "image/png", "text/html", ""}
    /\ scan = "ok" => mime \in {Pdf, "image/png"}
    /\ mutool \in {"ok", "not_found", "exit_failure", "non_utf8"}
    /\ \E n \in 1..MaxFileImages :
          images \in [1..n -> {x \in Detections : Len(x.results) <= 1}]
    /\ wpc = <<>> /\ wres = <<>> /\ lock = 0 /\ barcode_list = <<>>
    /\ result = None
    /\ pairs = <<>> /\ map = <<>> /\ bi = 0
    /\ ElemIdle /\ CollIdle /\ PageIdle

othersOfFile ==
    <<doc, kind, found, mime, mutool, scan, images, wpc, wres, lock, barcode_list,
      map, bi, elemVars, collVars, pageVars>>

\* let mut barcodes = scan_barcodes(path, hints)?
ScanFails ==
    /\ pc = "scan"
    /\ scan = "err"
    /\ result' = Err("get_images")
    /\ pc' = "returned"
    /\ UNCHANGED <<barcodes, pairs, othersOfFile>>

ScanSucceeds ==
    /\ pc = "scan"
    /\ scan = "ok"
    /\ \E order \in ScanOrders(images) :
          barcodes' = [i \in 1..Len(order) |->
                          BarcodeData(order[i].type, order[i].text, None)]
    /\ pc' = "convert"
    /\ UNCHANGED <<result, pairs, othersOfFile>>

\* let dates_and_codes = if mime == "application/pdf" { match .. } else { .. }
Convert ==
    /\ pc = "convert"
    /\ IF mime = Pdf
       THEN LET html == run_mutool_to_html(mutool, doc)
            IN  IF html[1].ok
                THEN \E ap \in process_pages(html[1].value) :
                        pairs' = extract_dates_and_codes_from_html(ap)
                ELSE pairs' = <<>>
       ELSE pairs' = <<>>
    /\ pc' = "enrich"
    /\ UNCHANGED <<barcodes, result, othersOfFile>>

\* enrich_barcodes_with_dates(&mut barcodes, &dates_and_codes); Ok(ScanResult)
EnrichAndReturn ==
    /\ pc = "enrich"
    /\ barcodes' = enrich_barcodes_with_dates(barcodes, pairs)
    /\ result' = Ok(barcodes')
    /\ pc' = "returned"
    /\ UNCHANGED <<pairs, othersOfFile>>

NextFile == ScanFails \/ ScanSucceeds \/ Convert \/ EnrichAndReturn

SpecFile == InitFile /\ [][NextFile]_vars

\* C4: when the scan succeeds and the conversion of a PDF fails, process_file
\* returns Ok with every decoded barcode, none of them dated; the conversion
\* error does not reach the caller.
C4_ConversionFailureDegrades ==
    (pc = "returned" /\ scan = "ok" /\ mime = Pdf /\ mutool # "ok") =>
        /\ result # None /\ result[1].ok
        /\ \A i \in 1..Len(result[1].value) : result[1].value[i].date = None
        /\ \A r \in AllReported :
              Count(result[1].value, BarcodeData(r.type, r.text, None)) = Reported(r)

\* the tool exits non-zero on markup that would have dated the decoded barcode
C4_Witness ==
    /\ pc = "returned" /\ scan = "ok" /\ mime = Pdf /\ mutool = "exit_failure"
    /\ Len(result[1].value) = 2
    /\ \E i \in 1..2 : result[1].value[i].type = "QR_CODE"
    /\ \E ap \in process_pages(doc) :
          enrich_barcodes_with_dates(barcodes, extract_dates_and_codes_from_html(ap))
              # barcodes

(***************************************************************************)
(* The stepwise models agree with the operators used elsewhere             *)
(***************************************************************************)
ElementAgrees ==
    (pc = "returned" /\ el # 0) => found = iter_matches_in_el(doc, el, kind)

CollectAgrees ==
    (pc = "returned" /\ sel = <<>> /\ kind # "" /\ doc # <<>>) =>
        items \in collect_items_for_root(doc, 1, kind)

PagesAgree ==
    (pc = "enrich" /\ run > 0) => all_pairs \in process_pages(doc)

EnrichAgrees ==
    [][(pc = "collect" /\ pc' = "loop") =>
          \A i \in 1..Len(barcodes) :
              enrich_barcodes_with_dates(barcodes, pairs)[i] = EnrichOne(barcodes[i], map')]_vars

ScanAgrees ==
    (pc = "returned" /\ wpc # <<>>) =>
        [i \in 1..Len(barcode_list) |->
            Decoded(barcode_list[i].type, barcode_list[i].data)] \in ScanOrders(images)

====
